---- MODULE Spec2Model ----
(***************************************************************************)
(* A model of two pieces of wasmi:                                         *)
(*   - BlockType (wasmi_v1/src/module2/compile/block_type.rs): the type of *)
(*     a control flow block and its params / results / params_results      *)
(*     accessors against a module's function type table;                   *)
(*   - TestContext (tests/spec/v1/context.rs): compile_and_instantiate and *)
(*     the instance lookups instance_by_name / instance_by_name_or_last.   *)
(***************************************************************************)
EXTENDS Integers, Sequences, FiniteSets, TLC

VARIABLES
    \* ---- block type resolution ----
    func_types,        \* the module's function type table behind ModuleResources
    raw,               \* the wasmparser::TypeOrFuncType handed to try_from
    block,             \* Result<BlockType, ModuleError> of try_from
    out_params,        \* outcome of BlockType::params on block
    out_results,       \* outcome of BlockType::results on block
    out_params_results,\* outcome of BlockType::params_results on block
    \* ---- TestContext ----
    linker,            \* TestContext.linker: the defined (module, name) pairs
    store,             \* TestContext.store: the objects and instance slots allocated
    modules,           \* TestContext.modules
    instances,         \* TestContext.instances: name -> Instance
    last_instance,     \* TestContext.last_instance
    ret,               \* the last TestContext call: its arguments and its result
    created            \* history: the successful compile_and_instantiate calls, in order

block_vars == <<func_types, raw, block, out_params, out_results, out_params_results>>
ctx_vars == <<linker, store, modules, instances, last_instance, ret, created>>
vars == <<func_types, raw, block, out_params, out_results, out_params_results,
          linker, store, modules, instances, last_instance, ret, created>>

(***************************************************************************)
(* Bounds                                                                  *)
(***************************************************************************)
\* the longest function type table explored
MaxTypes == 2
\* the number of instance slots a store may hold before the exploration stops
MaxInstances == 3

(***************************************************************************)
(* Values                                                                  *)
(***************************************************************************)
None == [tag |-> "None"]
Some(v) == [tag |-> "Some", val |-> v]
Ok(v) == [kind |-> "ok", val |-> v]
Err(e) == [kind |-> "err", val |-> e]
\* an index out of bounds unwinds: the call produces no value at all
Panic == [kind |-> "panic", val |-> "index out of bounds"]
\* the accessor has not been called on the current block type
NotCalled == [kind |-> "none", val |-> "none"]

ValueType == {"i32", "i64", "f32", "f64"}

\* the wasmparser::Type tags a block can carry
WasmparserType == {"I32", "I64", "F32", "F64", "V128", "FuncRef", "ExternRef", "EmptyBlockType"}

\* the parameter / result lists the explored function types are built from
TypeLists == {<< >>, <<"i32">>, <<"i64", "f32">>, <<"f32", "i64">>}

FuncType == [params : TypeLists, results : TypeLists]

RECURSIVE TablesOfLen(_)
TablesOfLen(n) ==
    IF n = 0 THEN {<< >>}
    ELSE {Append(t, ft) : t \in TablesOfLen(n - 1), ft \in FuncType}

TypeTables == UNION {TablesOfLen(n) : n \in 0..MaxTypes}

\* a wasmparser::TypeOrFuncType
TypeOrFuncType ==
    {[tag |-> "Type", ty |-> t, idx |-> 0] : t \in WasmparserType}
    \cup {[tag |-> "FuncType", ty |-> "none", idx |-> i] : i \in 0..MaxTypes}

NoEncoding == [tag |-> "none", ty |-> "none", idx |-> 0]

(***************************************************************************)
(* BlockType                                                               *)
(***************************************************************************)
BlockTypeInner_Empty == [tag |-> "Empty", ty |-> "none", idx |-> 0]
BlockTypeInner_Returns(return_type) == [tag |-> "Returns", ty |-> return_type, idx |-> 0]
BlockTypeInner_FuncType(func_type) == [tag |-> "FuncType", ty |-> "none", idx |-> func_type]

value_type_from_wasmparser(t) ==
    CASE t = "I32" -> Ok("i32")
      [] t = "I64" -> Ok("i64")
      [] t = "F32" -> Ok("f32")
      [] t = "F64" -> Ok("f64")
      [] OTHER -> Err([error |-> "unsupported value type", ty |-> t])

\* try_from with its first two match arms in the other order: the empty block
\* tag reaches the value type conversion
try_from_ArmsSwapped(type_or_func_type) ==
    IF type_or_func_type.tag = "Type"
    THEN LET return_type == value_type_from_wasmparser(type_or_func_type.ty)
         IN  IF return_type.kind = "err" THEN return_type
             ELSE Ok(BlockTypeInner_Returns(return_type.val))
    ELSE Ok(BlockTypeInner_FuncType(type_or_func_type.idx))

try_from(type_or_func_type) ==
    IF type_or_func_type.tag = "Type"
    THEN IF type_or_func_type.ty = "EmptyBlockType"
         THEN Ok(BlockTypeInner_Empty)
         ELSE LET return_type == value_type_from_wasmparser(type_or_func_type.ty)
              IN  IF return_type.kind = "err" THEN return_type
                  ELSE Ok(BlockTypeInner_Returns(return_type.val))
    ELSE Ok(BlockTypeInner_FuncType(type_or_func_type.idx))

\* ModuleResources::get_func_type: indexes the table (0-based index)
get_func_type(res, func_type) ==
    IF func_type < Len(res) THEN Ok(res[func_type + 1]) ELSE Panic

FuncType_params(ft) == ft.params
FuncType_results(ft) == ft.results
FuncType_params_results(ft) == <<ft.params, ft.results>>

\* params reading the function type's results
params_ReadsResults(inner, res) ==
    IF inner.tag \in {"Empty", "Returns"} THEN Ok(<< >>)
    ELSE LET ft == get_func_type(res, inner.idx)
         IN  IF ft.kind = "panic" THEN Panic ELSE Ok(FuncType_results(ft.val))

params(inner, res) ==
    IF inner.tag \in {"Empty", "Returns"} THEN Ok(<< >>)
    ELSE LET ft == get_func_type(res, inner.idx)
         IN  IF ft.kind = "panic" THEN Panic ELSE Ok(FuncType_params(ft.val))

\* results with the Returns arm merged into the Empty arm, as params has it
results_ReturnsMerged(inner, res) ==
    CASE inner.tag \in {"Empty", "Returns"} -> Ok(<< >>)
      [] OTHER ->
            LET ft == get_func_type(res, inner.idx)
            IN  IF ft.kind = "panic" THEN Panic ELSE Ok(FuncType_results(ft.val))

results(inner, res) ==
    CASE inner.tag = "Empty" -> Ok(<< >>)
      [] inner.tag = "Returns" -> Ok(<<inner.ty>>)
      [] OTHER ->
            LET ft == get_func_type(res, inner.idx)
            IN  IF ft.kind = "panic" THEN Panic ELSE Ok(FuncType_results(ft.val))

\* params_results with the pair of the Returns arm the wrong way round
params_results_PairSwapped(inner, res) ==
    CASE inner.tag = "Empty" -> Ok(<< << >>, << >> >>)
      [] inner.tag = "Returns" -> Ok(<< <<inner.ty>>, << >> >>)
      [] OTHER ->
            LET ft == get_func_type(res, inner.idx)
            IN  IF ft.kind = "panic" THEN Panic ELSE Ok(FuncType_params_results(ft.val))

params_results(inner, res) ==
    CASE inner.tag = "Empty" -> Ok(<< << >>, << >> >>)
      [] inner.tag = "Returns" -> Ok(<< << >>, <<inner.ty>> >>)
      [] OTHER ->
            LET ft == get_func_type(res, inner.idx)
            IN  IF ft.kind = "panic" THEN Panic ELSE Ok(FuncType_params_results(ft.val))

\* a panic unwinds out of the compilation: nothing runs after it
Panicked ==
    \/ out_params.kind = "panic"
    \/ out_results.kind = "panic"
    \/ out_params_results.kind = "panic"

\* the next control instruction's encoding arrives and is converted
TryFrom ==
    /\ ~Panicked
    /\ \E enc \in TypeOrFuncType :
          /\ raw' = enc
          /\ block' = try_from(enc)
    /\ out_params' = NotCalled
    /\ out_results' = NotCalled
    /\ out_params_results' = NotCalled
    /\ UNCHANGED <<func_types>>
    /\ UNCHANGED ctx_vars

Params ==
    /\ ~Panicked
    /\ block.kind = "ok"
    /\ out_params' = params(block.val, func_types)
    /\ UNCHANGED <<func_types, raw, block, out_results, out_params_results>>
    /\ UNCHANGED ctx_vars

Results ==
    /\ ~Panicked
    /\ block.kind = "ok"
    /\ out_results' = results(block.val, func_types)
    /\ UNCHANGED <<func_types, raw, block, out_params, out_params_results>>
    /\ UNCHANGED ctx_vars

ParamsResults ==
    /\ ~Panicked
    /\ block.kind = "ok"
    /\ out_params_results' = params_results(block.val, func_types)
    /\ UNCHANGED <<func_types, raw, block, out_params, out_results>>
    /\ UNCHANGED ctx_vars

(***************************************************************************)
(* TestContext                                                             *)
(***************************************************************************)
\* the names a test gives its modules
Names == {"a", "b"}

OptionId == {None} \cup {Some(n) : n \in Names}

\* the import lists of the explored Wasm binaries
ImportLists ==
    { {},
      {<<"spectest", "memory">>},
      {<<"spectest", "print_i32">>, <<"env", "missing">>} }

\* a Wasm binary, by what the pipeline reads off it: whether it compiles, what
\* it imports, whether it declares a start function (nothing is read off bytes
\* that do not compile); every explored module declares one function of its own
Wasm ==
    {w \in [valid : BOOLEAN, imports : ImportLists, start : BOOLEAN] :
        w.valid \/ (w.imports = {} /\ ~w.start)}

TestError_InstanceNotRegistered(name) == [error |-> "InstanceNotRegistered", name |-> name]
TestError_NoModuleInstancesFound == [error |-> "NoModuleInstancesFound"]

\* TestContext::default(): eight host definitions allocated in the store and
\* defined in the linker under "spectest"; no module, no instance
Default ==
    [ linker |-> { <<"spectest", n>> :
                     n \in {"memory", "table", "global_i32", "print_i32", "print_f32",
                            "print_f64", "print_i32_f32", "print_f64_f64"} },
      store |-> [ objects |-> <<"memory", "table", "global_i32", "print_i32", "print_f32",
                                "print_f64", "print_i32_f32", "print_f64_f64">>,
                  instances |-> 0,
                  initialized |-> {} ],
      modules |-> << >>,
      instances |-> [n \in {} |-> 0],
      last_instance |-> None ]

\* Module::new: compiles and validates the bytes
Module_new(wasm) ==
    IF wasm.valid
    THEN Ok([imports |-> wasm.imports, start |-> wasm.start])
    ELSE Err([error |-> "ModuleError"])

\* Linker::instantiate: resolves every import, then allocates an instance slot
\* and the module's own declarations in the store; the start function has not run
Linker_instantiate(lnk, st, module) ==
    IF \E imp \in module.imports : imp \notin lnk
    THEN [ res |-> Err([error |-> "UnresolvedImport",
                        import |-> CHOOSE imp \in module.imports : imp \notin lnk]),
           store |-> st ]
    ELSE [ res |-> Ok([handle |-> st.instances + 1, start |-> module.start]),
           store |-> [ st EXCEPT
                         !.instances = st.instances + 1,
                         !.objects = Append(st.objects, "func") ] ]

\* InstancePre::ensure_no_start_fn: fails when the module declares a start
\* function, otherwise initializes the allocated instance and hands it out
ensure_no_start_fn(instance_pre, st) ==
    IF instance_pre.start
    THEN [ res |-> Err([error |-> "FoundStartFn"]), store |-> st ]
    ELSE [ res |-> Ok(instance_pre.handle),
           store |-> [st EXCEPT !.initialized = st.initialized \cup {instance_pre.handle}] ]

\* an insert that keeps the value a key already has (entry().or_insert())
HashMap_insert_KeepFirst(map, key, value) ==
    [k \in DOMAIN map \cup {key} |-> IF k \in DOMAIN map THEN map[k] ELSE value]

\* HashMap::insert
HashMap_insert(map, key, value) ==
    [k \in DOMAIN map \cup {key} |-> IF k = key THEN value ELSE map[k]]

\* HashMap::get(..).copied()
HashMap_get(map, key) ==
    IF key \in DOMAIN map THEN Some(map[key]) ELSE None

\* compile_and_instantiate that sets last_instance only while it is empty
compile_and_instantiate_LastSetOnce(self, id, wasm) ==
    LET module == Module_new(wasm) IN
    IF module.kind = "err" THEN [self |-> self, res |-> module] ELSE
    LET linked == Linker_instantiate(self.linker, self.store, module.val)
        self1 == [self EXCEPT !.store = linked.store]
    IN
    IF linked.res.kind = "err" THEN [self |-> self1, res |-> linked.res] ELSE
    LET final == ensure_no_start_fn(linked.res.val, self1.store)
        self2 == [self1 EXCEPT !.store = final.store]
    IN
    IF final.res.kind = "err" THEN [self |-> self2, res |-> final.res] ELSE
    LET instance == final.res.val
        self3 == [self2 EXCEPT !.modules = Append(self2.modules, module.val)]
        self4 == IF id.tag = "Some"
                 THEN [self3 EXCEPT !.instances = [k \in DOMAIN self3.instances \cup {id.val} |->
                                                     IF k = id.val THEN instance
                                                     ELSE self3.instances[k]]]
                 ELSE self3
        self5 == IF self4.last_instance.tag = "None"
                 THEN [self4 EXCEPT !.last_instance = Some(instance)]
                 ELSE self4
    IN  [self |-> self5, res |-> Ok(instance)]

\* compile_and_instantiate that stores the module before it is instantiated
compile_and_instantiate_PushFirst(self, id, wasm) ==
    LET module == Module_new(wasm) IN
    IF module.kind = "err" THEN [self |-> self, res |-> module] ELSE
    LET self0 == [self EXCEPT !.modules = Append(self.modules, module.val)]
        linked == Linker_instantiate(self0.linker, self0.store, module.val)
        self1 == [self0 EXCEPT !.store = linked.store]
    IN
    IF linked.res.kind = "err" THEN [self |-> self1, res |-> linked.res] ELSE
    LET final == ensure_no_start_fn(linked.res.val, self1.store)
        self2 == [self1 EXCEPT !.store = final.store]
    IN
    IF final.res.kind = "err" THEN [self |-> self2, res |-> final.res] ELSE
    LET instance == final.res.val
        self4 == IF id.tag = "Some"
                 THEN [self2 EXCEPT !.instances = [k \in DOMAIN self2.instances \cup {id.val} |->
                                                     IF k = id.val THEN instance
                                                     ELSE self2.instances[k]]]
                 ELSE self2
        self5 == [self4 EXCEPT !.last_instance = Some(instance)]
    IN  [self |-> self5, res |-> Ok(instance)]

\* compile_and_instantiate that takes the pre-instance's handle without the
\* ensure_no_start_fn check
compile_and_instantiate_NoStartCheck(self, id, wasm) ==
    LET module == Module_new(wasm) IN
    IF module.kind = "err" THEN [self |-> self, res |-> module] ELSE
    LET linked == Linker_instantiate(self.linker, self.store, module.val)
        self1 == [self EXCEPT !.store = linked.store]
    IN
    IF linked.res.kind = "err" THEN [self |-> self1, res |-> linked.res] ELSE
    LET instance == linked.res.val.handle
        self2 == [self1 EXCEPT !.store.initialized = self1.store.initialized \cup {instance}]
        self3 == [self2 EXCEPT !.modules = Append(self2.modules, module.val)]
        self4 == IF id.tag = "Some"
                 THEN [self3 EXCEPT !.instances = [k \in DOMAIN self3.instances \cup {id.val} |->
                                                     IF k = id.val THEN instance
                                                     ELSE self3.instances[k]]]
                 ELSE self3
        self5 == [self4 EXCEPT !.last_instance = Some(instance)]
    IN  [self |-> self5, res |-> Ok(instance)]

\* TestContext::compile_and_instantiate: the context after the call and its result
compile_and_instantiate(self, id, wasm) ==
    LET module == Module_new(wasm) IN
    IF module.kind = "err" THEN [self |-> self, res |-> module] ELSE
    LET linked == Linker_instantiate(self.linker, self.store, module.val)
        self1 == [self EXCEPT !.store = linked.store]
    IN
    IF linked.res.kind = "err" THEN [self |-> self1, res |-> linked.res] ELSE
    LET final == ensure_no_start_fn(linked.res.val, self1.store)
        self2 == [self1 EXCEPT !.store = final.store]
    IN
    IF final.res.kind = "err" THEN [self |-> self2, res |-> final.res] ELSE
    LET instance == final.res.val
        self3 == [self2 EXCEPT !.modules = Append(self2.modules, module.val)]
        self4 == IF id.tag = "Some"
                 THEN [self3 EXCEPT !.instances = HashMap_insert(self3.instances, id.val, instance)]
                 ELSE self3
        self5 == [self4 EXCEPT !.last_instance = Some(instance)]
    IN  [self |-> self5, res |-> Ok(instance)]

\* TestContext::instance_by_name
instance_by_name(self, name) ==
    LET found == HashMap_get(self.instances, name)
    IN  IF found.tag = "Some" THEN Ok(found.val)
        ELSE Err(TestError_InstanceNotRegistered(name))

\* instance_by_name_or_last that falls back to the last instance when the name
\* is not registered
instance_by_name_or_last_Fallback(self, name) ==
    IF name.tag = "Some" /\ name.val \in DOMAIN self.instances
    THEN Ok(self.instances[name.val])
    ELSE IF self.last_instance.tag = "Some" THEN Ok(self.last_instance.val)
         ELSE Err(TestError_NoModuleInstancesFound)

\* TestContext::instance_by_name_or_last
instance_by_name_or_last(self, name) ==
    IF name.tag = "Some" THEN instance_by_name(self, name.val)
    ELSE IF self.last_instance.tag = "Some" THEN Ok(self.last_instance.val)
         ELSE Err(TestError_NoModuleInstancesFound)

\* the TestContext the variables hold
Self ==
    [ linker |-> linker, store |-> store, modules |-> modules,
      instances |-> instances, last_instance |-> last_instance ]

CompileAndInstantiate ==
    /\ store.instances < MaxInstances
    /\ \E id \in OptionId, wasm \in Wasm :
          LET r == compile_and_instantiate(Self, id, wasm) IN
          /\ linker' = r.self.linker
          /\ store' = r.self.store
          /\ modules' = r.self.modules
          /\ instances' = r.self.instances
          /\ last_instance' = r.self.last_instance
          /\ ret' = [op |-> "compile_and_instantiate", id |-> id, wasm |-> wasm, res |-> r.res]
          /\ created' = IF r.res.kind = "ok"
                        THEN Append(created, [id |-> id, instance |-> r.res.val])
                        ELSE created
    /\ UNCHANGED block_vars

InstanceByName ==
    /\ \E name \in Names :
          ret' = [op |-> "instance_by_name", name |-> name,
                  res |-> instance_by_name(Self, name)]
    /\ UNCHANGED <<linker, store, modules, instances, last_instance, created>>
    /\ UNCHANGED block_vars

InstanceByNameOrLast ==
    /\ \E name \in OptionId :
          ret' = [op |-> "instance_by_name_or_last", name |-> name,
                  res |-> instance_by_name_or_last(Self, name)]
    /\ UNCHANGED <<linker, store, modules, instances, last_instance, created>>
    /\ UNCHANGED block_vars

(***************************************************************************)
(* Specifications                                                          *)
(***************************************************************************)
\* a fresh TestContext; no block is being compiled
CtxInit ==
    /\ linker = Default.linker
    /\ store = Default.store
    /\ modules = Default.modules
    /\ instances = Default.instances
    /\ last_instance = Default.last_instance
    /\ ret = [op |-> "none"]
    /\ created = << >>

Init ==
    /\ CtxInit
    /\ func_types = << >>
    /\ raw = NoEncoding
    /\ block = NotCalled
    /\ out_params = NotCalled
    /\ out_results = NotCalled
    /\ out_params_results = NotCalled

Next ==
    \/ CompileAndInstantiate
    \/ InstanceByName
    \/ InstanceByNameOrLast

Spec == Init /\ [][Next]_vars

\* block type resolution against any function type table within the bounds
InitBlock ==
    /\ CtxInit
    /\ func_types \in TypeTables
    /\ raw = NoEncoding
    /\ block = NotCalled
    /\ out_params = NotCalled
    /\ out_results = NotCalled
    /\ out_params_results = NotCalled

NextBlock ==
    \/ TryFrom
    \/ Params
    \/ Results
    \/ ParamsResults

SpecBlock == InitBlock /\ [][NextBlock]_vars

(***************************************************************************)
(* Reading results                                                         *)
(***************************************************************************)
\* result r is Ok(v) / Err(e); two results are the same
IsOk(r, v) == r.kind = "ok" /\ r.val = v
IsErr(r, e) == r.kind = "err" /\ r.val = e
SameResult(r1, r2) == r1.kind = r2.kind /\ r1.val = r2.val

(***************************************************************************)
(* Properties of TestContext (checked under Spec)                          *)
(***************************************************************************)
\* the last call was instance_by_name_or_last(None)
LookedUpLast == ret.op = "instance_by_name_or_last" /\ ret.name.tag = "None"

\* the successful calls that were given name n, by their position in the history
CallsNamed(n) == {i \in 1..Len(created) : created[i].id = Some(n)}

\* the most recent of a non-empty set of calls
Latest(calls) == CHOOSE i \in calls : \A j \in calls : j <= i

\* C1: instance_by_name_or_last(None) fails with NoModuleInstancesFound while no
\* compile_and_instantiate has succeeded; after exactly one success it returns
\* that instance; after a second success under another name or under no name
\* it returns the second instance, and instance_by_name(first name) still
\* returns the first.
C1_LastInstanceFollowsCreation ==
    /\ (LookedUpLast /\ Len(created) = 0) =>
          IsErr(ret.res, TestError_NoModuleInstancesFound)
    /\ (LookedUpLast /\ Len(created) = 1) =>
          IsOk(ret.res, created[1].instance)
    /\ (LookedUpLast /\ Len(created) = 2 /\ created[2].id # created[1].id) =>
          IsOk(ret.res, created[2].instance)
    /\ (LookedUpLast /\ Len(created) = 2 /\ created[2].id.tag = "None") =>
          IsOk(ret.res, created[2].instance)
    /\ ( /\ ret.op = "instance_by_name"
         /\ Len(created) = 2
         /\ created[1].id = Some(ret.name)
         /\ created[2].id # created[1].id ) =>
          IsOk(ret.res, created[1].instance)

\* C1 witness: two modules were instantiated, the first as "a" and the second
\* under no name, and they are different instances; the unnamed lookup has
\* just returned the second
C1_Witness ==
    /\ Len(created) = 2
    /\ created[1].id = Some("a")
    /\ created[2].id.tag = "None"
    /\ created[1].instance # created[2].instance
    /\ LookedUpLast
    /\ IsOk(ret.res, created[2].instance)
    /\ IsOk(instance_by_name(Self, "a"), created[1].instance)

\* C7: instance_by_name_or_last(Some(name)) with a name no successful call
\* registered fails with InstanceNotRegistered carrying that name, also when
\* a last instance exists; instance_by_name_or_last(None) fails exactly when
\* no instance was ever created, and then with NoModuleInstancesFound.
C7_DistinctLookupErrors ==
    /\ ( /\ ret.op = "instance_by_name_or_last"
         /\ ret.name.tag = "Some"
         /\ CallsNamed(ret.name.val) = {} ) =>
          IsErr(ret.res, TestError_InstanceNotRegistered(ret.name.val))
    /\ LookedUpLast =>
          /\ ret.res.kind = "err" <=> Len(created) = 0
          /\ ret.res.kind = "err" => ret.res.val = TestError_NoModuleInstancesFound

\* C7 witness: an instance exists, and the lookup of an unregistered name has
\* just failed with InstanceNotRegistered for that name
C7_Witness ==
    /\ last_instance.tag = "Some"
    /\ Len(created) > 0
    /\ ret.op = "instance_by_name_or_last"
    /\ ret.name = Some("b")
    /\ IsErr(ret.res, TestError_InstanceNotRegistered("b"))

\* C8: the name map binds each name to the instance of the most recent
\* successful call given that name, and binds no other name; so successful
\* calls given no name change no binding, and instance_by_name(n) returns
\* the instance of the most recent successful call given n.
C8_LastWriteWins ==
    /\ DOMAIN instances = {n \in Names : CallsNamed(n) # {}}
    /\ \A n \in DOMAIN instances :
          instances[n] = created[Latest(CallsNamed(n))].instance
    /\ (ret.op = "instance_by_name" /\ CallsNamed(ret.name) # {}) =>
          IsOk(ret.res, created[Latest(CallsNamed(ret.name))].instance)
    /\ (ret.op = "instance_by_name" /\ CallsNamed(ret.name) = {}) =>
          IsErr(ret.res, TestError_InstanceNotRegistered(ret.name))

\* C8 witness: name "a" was given twice and a call with no name followed;
\* instance_by_name("a") has just returned the second instance
C8_Witness ==
    /\ Len(created) = 3
    /\ created[1].id = Some("a")
    /\ created[2].id = Some("a")
    /\ created[3].id.tag = "None"
    /\ created[1].instance # created[2].instance
    /\ ret.op = "instance_by_name"
    /\ ret.name = "a"
    /\ IsOk(ret.res, created[2].instance)

\* the binary compiles, all its imports are defined and it has a start function
StartModule(wasm) == wasm.valid /\ wasm.start /\ wasm.imports \subseteq linker

\* C9: compile_and_instantiate of a module with a start function whose imports
\* all resolve fails at ensure_no_start_fn: the call returns the FoundStartFn
\* error and no instance, the store holds one more instance slot and the
\* module's declared objects, that slot is never initialized, and nothing a
\* store holds is ever given back.
C9_StartFnFailsAfterAllocation ==
    [][ /\ (ret'.op = "compile_and_instantiate" /\ StartModule(ret'.wasm)) =>
              /\ IsErr(ret'.res, [error |-> "FoundStartFn"])
              /\ store'.instances = store.instances + 1
              /\ store'.objects = Append(store.objects, "func")
              /\ store'.initialized = store.initialized
              /\ created' = created
        /\ store'.instances >= store.instances
        /\ Len(store'.objects) >= Len(store.objects)
        /\ store.initialized \subseteq store'.initialized ]_vars

\* C9 witness: after one module was instantiated, a module with a start
\* function has just been refused; the store holds two instance slots, of
\* which only the first is an instance
C9_Witness ==
    /\ ret.op = "compile_and_instantiate"
    /\ StartModule(ret.wasm)
    /\ store.objects = Default.store.objects \o <<"func", "func">>
    /\ IsErr(ret.res, [error |-> "FoundStartFn"])
    /\ store.instances = 2
    /\ store.initialized = {1}
    /\ last_instance = Some(1)

\* C10: a compile_and_instantiate call that fails leaves modules, the name
\* map and last_instance as they were, so every lookup answers as before.
C10_FailedCallKeepsBookkeeping ==
    [][ (ret'.op = "compile_and_instantiate" /\ ret'.res.kind = "err") =>
          /\ modules' = modules
          /\ instances' = instances
          /\ last_instance' = last_instance
          /\ \A n \in Names :
                SameResult(instance_by_name(Self, n)', instance_by_name(Self, n))
          /\ \A n \in OptionId :
                SameResult(instance_by_name_or_last(Self, n)',
                           instance_by_name_or_last(Self, n)) ]_vars

\* C10 witness: with a module stored and registered as "a", a call has just
\* failed in the linker on an import that is not defined
C10_Witness ==
    /\ ret.op = "compile_and_instantiate"
    /\ ret.res.kind = "err"
    /\ ret.res.val.error = "UnresolvedImport"
    /\ Len(modules) = 1
    /\ "a" \in DOMAIN instances
    /\ last_instance.tag = "Some"

(***************************************************************************)
(* Properties of BlockType (checked under SpecBlock)                       *)
(***************************************************************************)
\* the outcomes of the accessors that were called on the current block type
Called == {o \in {out_params, out_results, out_params_results} : o.kind # "none"}

\* the encoding names a function type the table does not have
OutOfRange == raw.tag = "FuncType" /\ raw.idx >= Len(func_types)

\* the encoding names a function type of the table
InRange == raw.tag = "FuncType" /\ raw.idx < Len(func_types)

\* C2: a block encoding whose function type index is not below the table
\* length resolves to a typed error naming the index, and never panics:
\* either try_from refuses it, or every accessor called on it returns an error.
C2_OutOfRangeIsTypedError ==
    OutOfRange =>
        \/ block.kind = "err" /\ block.val.idx = raw.idx
        \/ \A o \in Called : o.kind = "err" /\ o.val.idx = raw.idx

\* C3: for a general block type whose index is valid, params returns the
\* entry's parameter list, results its result list and params_results the
\* pair of the two, each in the table's order and length.
C3_GeneralBlockReadsTable ==
    InRange =>
        /\ IsOk(block, BlockTypeInner_FuncType(raw.idx))
        /\ out_params.kind # "none" =>
              IsOk(out_params, func_types[raw.idx + 1].params)
        /\ out_results.kind # "none" =>
              IsOk(out_results, func_types[raw.idx + 1].results)
        /\ out_params_results.kind # "none" =>
              IsOk(out_params_results,
                   <<func_types[raw.idx + 1].params, func_types[raw.idx + 1].results>>)

\* C3 witness: index 1 of a two entry table, whose entry takes (i64, f32) and
\* returns (f32, i64); all three accessors were called
C3_Witness ==
    /\ Len(func_types) = 2
    /\ raw.tag = "FuncType"
    /\ raw.idx = 1
    /\ func_types[2] = [params |-> <<"i64", "f32">>, results |-> <<"f32", "i64">>]
    /\ IsOk(out_params, <<"i64", "f32">>)
    /\ IsOk(out_results, <<"f32", "i64">>)
    /\ IsOk(out_params_results, << <<"i64", "f32">>, <<"f32", "i64">> >>)

\* the value type a concrete wasmparser type tag stands for
ValueTypeOfTag(t) ==
    CASE t = "I32" -> "i32"
      [] t = "I64" -> "i64"
      [] t = "F32" -> "f32"
      [] t = "F64" -> "f64"

\* try_from made a block type out of a single concrete value type
SingleResult == raw.tag = "Type" /\ raw.ty # "EmptyBlockType" /\ block.kind = "ok"

\* C4: for a single-result block encoding of value type T and any table,
\* results returns <<T>>, params returns the empty sequence and
\* params_results returns (<< >>, <<T>>).
C4_SingleResultBlock ==
    SingleResult =>
        /\ raw.ty \in {"I32", "I64", "F32", "F64"}
        /\ out_results.kind # "none" =>
              IsOk(out_results, <<ValueTypeOfTag(raw.ty)>>)
        /\ out_params.kind # "none" =>
              IsOk(out_params, << >>)
        /\ out_params_results.kind # "none" =>
              IsOk(out_params_results, << << >>, <<ValueTypeOfTag(raw.ty)>> >>)

\* C4 witness: an f64 block against a table whose entries say otherwise; all
\* three accessors were called
C4_Witness ==
    /\ raw.tag = "Type"
    /\ raw.ty = "F64"
    /\ Len(func_types) = 1
    /\ func_types[1] = [params |-> <<"i32">>, results |-> <<"i64", "f32">>]
    /\ IsOk(out_results, <<"f64">>)
    /\ IsOk(out_params, << >>)
    /\ IsOk(out_params_results, << << >>, <<"f64">> >>)

\* C5: for the empty block encoding and any table, the empty one included,
\* try_from succeeds and params and results both return the empty sequence.
C5_EmptyBlock ==
    (raw.tag = "Type" /\ raw.ty = "EmptyBlockType") =>
        /\ IsOk(block, BlockTypeInner_Empty)
        /\ out_params.kind # "none" => IsOk(out_params, << >>)
        /\ out_results.kind # "none" => IsOk(out_results, << >>)

\* C5 witness: the empty block against the empty table, params and results
\* both called
C5_Witness ==
    /\ raw.tag = "Type"
    /\ raw.ty = "EmptyBlockType"
    /\ func_types = << >>
    /\ IsOk(out_params, << >>)
    /\ IsOk(out_results, << >>)

\* C6: for every block type (empty, single result, general with a valid index)
\* and every table, params_results returns the pair of what params and
\* results return.
C6_CombinedEqualsSeparate ==
    ( /\ block.kind = "ok"
      /\ ~OutOfRange
      /\ out_params.kind # "none"
      /\ out_results.kind # "none"
      /\ out_params_results.kind # "none" ) =>
        /\ out_params.kind = "ok"
        /\ out_results.kind = "ok"
        /\ IsOk(out_params_results, <<out_params.val, out_results.val>>)

\* C6 witness: a single-result block on which all three accessors were called
C6_Witness ==
    /\ IsOk(block, BlockTypeInner_Returns("i64"))
    /\ out_params.kind = "ok"
    /\ out_results.kind = "ok"
    /\ IsOk(out_params_results, <<out_params.val, out_results.val>>)
    /\ out_results.val # out_params.val

====
